---- MODULE Spec2Model ----
(***************************************************************************)
(* A model of SceneManager (src/SceneManager.cpp): the texture registry    *)
(* (m_textureIDs / m_loadedTextures), the material registry                *)
(* (m_objectMaterials), the transform composer, the shader binders and     *)
(* the render pass, together with the parts of the OpenGL context and of   *)
(* the shader uniform sink that these methods drive.                       *)
(*                                                                         *)
(* Representation.  A float is a fixed-point integer in units of           *)
(* 1/FixedOne.  A uniform value, a draw call's arguments and a call's      *)
(* numeric arguments are tuples of integers; a bool is 0 or 1.             *)
(***************************************************************************)
EXTENDS Integers, Sequences, FiniteSets, TLC

VARIABLES
    m_textureIDs,       \* [0..MaxTextures-1 -> [tag, ID]]  the texture collection
    m_loadedTextures,   \* occupied-slot count
    m_objectMaterials,  \* sequence of OBJECT_MATERIAL
    glGenCount,         \* texture names glGenTextures has handed out so far
    glDeleted,          \* texture names released with glDeleteTextures
    glActiveUnit,       \* the unit selected by glActiveTexture
    glUnits,            \* [unit -> texture name bound to GL_TEXTURE_2D]
    uniforms,           \* the shader's uniforms: [name -> value], <<>> = never set
    renderLog,          \* ordered binds, uniform pushes and draws of the last RenderScene
    passState,          \* history: "none" before the first RenderScene; then
                        \* "once" after a pass, "replayed" after a pass that
                        \* followed a pass with no setup call between them,
                        \* "dirty" after a setup call
    lastCall,           \* the most recent call: [op, tag, args, ret, writes]
    m_pShaderManager,   \* "sink" or "NULL"
    registered,         \* history: tags of the successful CreateGLTexture calls
                        \* since construction or the last DestroyGLTextures
    objState            \* "alive", "destroyed", or the undefined behaviour run into

vars == << m_textureIDs, m_loadedTextures, m_objectMaterials, glGenCount,
           glDeleted, glActiveUnit, glUnits, uniforms, renderLog, passState,
           lastCall, m_pShaderManager, registered, objState >>

----------------------------------------------------------------------------
(* Program constants and bounds *)

\* the size of m_textureIDs (the constructor's loop bound)
MaxTextures == 16

\* names glGenTextures may hand out before CreateGLTexture is no longer called
MaxGen == 18

\* CreateGLTexture calls that reuse the first tag among the occupied slots
MaxDupTags == 1

\* texture names that may exist outside the occupied slots when a
\* CreateGLTexture call is given an image of 1 or 2 channels
MaxOrphans == 1

\* 1.0f in fixed point
FixedOne == 1000

Slots == 0 .. (MaxTextures - 1)

\* the tags LoadSceneTextures registers, in order, then three more
TagPool ==
    << "planeTexture", "redTexture", "midTexture", "topTexture", "corkTexture",
       "cupTexture", "bottleTexture", "knobTexture", "whiteTexture",
       "lidTexture", "gripTexture", "pot1", "pot2", "wall",
       "extra15", "extra16", "extra17" >>

\* a tag no CreateGLTexture call is ever given
UnknownTag == "noSuchTag"

AllTags == { TagPool[i] : i \in 1 .. Len(TagPool) } \cup { UnknownTag }

Min(a, b) == IF a < b THEN a ELSE b

BoolInt(b) == IF b THEN 1 ELSE 0

\* the uniforms SceneManager's binders write
UniformNames ==
    { "model", "objectColor", "objectTexture", "bUseTexture", "UVscale",
      "material.diffuseColor", "material.specularColor", "material.shininess" }

----------------------------------------------------------------------------
(* The texture registry *)

\* the scan both lookups share: index of the first occupied slot at or after
\* `index` whose tag compares equal, or m_loadedTextures when there is none
RECURSIVE ScanTextures(_, _)
ScanTextures(tag, index) ==
    IF index < m_loadedTextures
    THEN IF m_textureIDs[index].tag = tag
         THEN index
         ELSE ScanTextures(tag, index + 1)
    ELSE m_loadedTextures

\* the scan with a bug: bFound does not end the loop, the last match wins
RECURSIVE ScanTexturesLast(_, _)
ScanTexturesLast(tag, index) ==
    IF index < m_loadedTextures
    THEN LET rest == ScanTexturesLast(tag, index + 1) IN
         IF rest < m_loadedTextures THEN rest
         ELSE IF m_textureIDs[index].tag = tag THEN index
         ELSE m_loadedTextures
    ELSE m_loadedTextures

FindTextureSlot_LastMatch(tag) ==
    LET index == ScanTexturesLast(tag, 0)
    IN  IF index < m_loadedTextures THEN index ELSE -1

\* FindTextureSlot(tag): the slot index of the first match, else -1
FindTextureSlot(tag) ==
    LET index == ScanTextures(tag, 0)
    IN  IF index < m_loadedTextures THEN index ELSE -1

\* FindTextureID(tag): the ID stored in the first match, else -1
FindTextureID(tag) ==
    LET index == ScanTextures(tag, 0)
    IN  IF index < m_loadedTextures THEN m_textureIDs[index].ID ELSE -1

\* what a call was: its name, tag argument, numeric arguments, return value
\* (a bool as 0/1, void as 0) and the number of uniform setters it invoked
Call(op, tag, args, ret, writes) ==
    [op |-> op, tag |-> tag, args |-> args, ret |-> ret, writes |-> writes]

\* passState after a setup call (registration, definition, teardown)
AfterSetup == IF passState = "none" THEN "none" ELSE "dirty"

\* a RenderScene call now would follow a pass with no setup call in between
Replay == passState \in {"once", "replayed"}

\* the object exists and has not run into undefined behaviour
Alive == objState = "alive"

\* what stbi_load can answer: no image, or an image with 1..4 channels
DecodeResults ==
    { [ok |-> FALSE, channels |-> 0] } \cup
    { [ok |-> TRUE, channels |-> c] : c \in 1 .. 4 }

\* the channel test with a bug: every decoded image is uploaded
ChannelsSupported_Any(colorChannels) == TRUE

\* the formats CreateGLTexture uploads: RGB (3) and RGBA (4)
ChannelsSupported(colorChannels) == colorChannels \in {3, 4}

\* CreateGLTexture(filename, tag); stbi_load's answer stands for the file
CreateGLTexture(tag, image, colorChannels) ==
    /\ Alive
    /\ passState' = AfterSetup
    /\ UNCHANGED << m_objectMaterials, glDeleted, glActiveUnit, uniforms,
                    renderLog, m_pShaderManager >>
    /\ IF ~image
       THEN \* "Could not load image": return false
            /\ lastCall' = Call("CreateGLTexture", tag, <<0>>, 0, 0)
            /\ UNCHANGED << m_textureIDs, m_loadedTextures, glGenCount,
                            glUnits, objState, registered >>
       ELSE LET textureID == glGenCount + 1 IN
            /\ glGenCount' = glGenCount + 1
            /\ IF ~ChannelsSupported(colorChannels)
               THEN \* return false with the new texture still bound
                    /\ glUnits' = [glUnits EXCEPT ![glActiveUnit] = textureID]
                    /\ lastCall' = Call("CreateGLTexture", tag,
                                        <<colorChannels>>, 0, 0)
                    /\ UNCHANGED << m_textureIDs, m_loadedTextures, objState,
                                    registered >>
               ELSE \* upload, unbind, then store at m_textureIDs[m_loadedTextures]
                    /\ glUnits' = [glUnits EXCEPT ![glActiveUnit] = 0]
                    /\ IF m_loadedTextures \in Slots
                       THEN /\ m_textureIDs' =
                                 [m_textureIDs EXCEPT ![m_loadedTextures] =
                                     [tag |-> tag, ID |-> textureID]]
                            /\ m_loadedTextures' = m_loadedTextures + 1
                            /\ lastCall' = Call("CreateGLTexture", tag,
                                                <<colorChannels>>, 1, 0)
                            /\ registered' = Append(registered, tag)
                            /\ UNCHANGED objState
                       ELSE \* the store is past the end of the array: the
                            \* write lands in whatever follows it, or faults
                            /\ objState' \in {"oob_write", "crash"}
                            /\ m_loadedTextures' =
                                 IF objState' = "oob_write"
                                 THEN m_loadedTextures + 1
                                 ELSE m_loadedTextures
                            /\ lastCall' = Call("CreateGLTexture", tag,
                                                <<colorChannels>>,
                                                BoolInt(objState' = "oob_write"), 0)
                            /\ registered' = IF objState' = "oob_write"
                                              THEN Append(registered, tag)
                                              ELSE registered
                            /\ UNCHANGED m_textureIDs

\* DestroyGLTextures with a bug: the count is not reset
DestroyGLTexturesEffect_KeepCount ==
    /\ glGenCount' = glGenCount + m_loadedTextures
    /\ m_textureIDs' =
         [i \in Slots |->
            IF i < m_loadedTextures
            THEN [tag |-> m_textureIDs[i].tag, ID |-> 0]
            ELSE m_textureIDs[i]]
    /\ UNCHANGED << m_loadedTextures, glDeleted >>

\* DestroyGLTextures: one glGenTextures per occupied slot, then ID = 0
DestroyGLTexturesEffect ==
    /\ glGenCount' = glGenCount + m_loadedTextures
    /\ m_textureIDs' =
         [i \in Slots |->
            IF i < m_loadedTextures
            THEN [tag |-> m_textureIDs[i].tag, ID |-> 0]
            ELSE m_textureIDs[i]]
    /\ m_loadedTextures' = 0
    /\ UNCHANGED glDeleted

DestroyGLTextures ==
    /\ Alive
    /\ DestroyGLTexturesEffect
    /\ registered' = << >>
    /\ passState' = AfterSetup
    /\ lastCall' = Call("DestroyGLTextures", "", <<>>, 0, 0)
    /\ UNCHANGED << m_objectMaterials, glActiveUnit, glUnits, uniforms,
                    renderLog, m_pShaderManager, objState >>

\* ~SceneManager: drops the shader manager and calls DestroyGLTextures
Destructor ==
    /\ Alive
    /\ m_pShaderManager' = "NULL"
    /\ DestroyGLTexturesEffect
    /\ registered' = << >>
    /\ objState' = "destroyed"
    /\ passState' = AfterSetup
    /\ lastCall' = Call("~SceneManager", "", <<>>, 0, 0)
    /\ UNCHANGED << m_objectMaterials, glActiveUnit, glUnits, uniforms,
                    renderLog >>

\* BindGLTextures: unit i gets m_textureIDs[i].ID for every occupied slot
BindEvents ==
    [i \in 1 .. m_loadedTextures |->
        [kind |-> "bind", name |-> "GL_TEXTURE_2D",
         value |-> <<i - 1, m_textureIDs[i - 1].ID>>]]

\* BindGLTextures with a bug: the loop runs while i <= m_loadedTextures
BindGLTexturesEffect_OneTooMany ==
    /\ glUnits' = [u \in DOMAIN glUnits |->
                     IF u <= m_loadedTextures THEN m_textureIDs[u].ID
                     ELSE glUnits[u]]
    /\ glActiveUnit' = Min(m_loadedTextures, MaxTextures - 1)

BindGLTexturesEffect ==
    /\ glUnits' = [u \in DOMAIN glUnits |->
                     IF u < m_loadedTextures THEN m_textureIDs[u].ID
                     ELSE glUnits[u]]
    /\ glActiveUnit' = IF m_loadedTextures > 0 THEN m_loadedTextures - 1
                       ELSE glActiveUnit

BindGLTextures ==
    /\ Alive
    /\ BindGLTexturesEffect
    /\ lastCall' = Call("BindGLTextures", "", <<>>, 0, 0)
    /\ UNCHANGED << m_textureIDs, m_loadedTextures, m_objectMaterials,
                    glGenCount, glDeleted, uniforms, renderLog,
                    passState, m_pShaderManager, registered, objState >>

----------------------------------------------------------------------------
(* The material registry *)

Material(tag, diffuse, specular, shininess) ==
    [tag |-> tag, diffuseColor |-> diffuse, specularColor |-> specular,
     shininess |-> shininess]

\* the four materials DefineObjectMaterials pushes back, in order
SceneMaterials ==
    << Material("shinier", <<400, 400, 400>>, <<1000, 1000, 1000>>, 128000),
       Material("matte",   <<300, 300, 400>>, <<0, 0, 0>>, 50),
       Material("gold",    <<400, 400, 400>>, <<1000, 1000, 1000>>, 256000),
       Material("glass",   <<100, 200, 300>>, <<1000, 1000, 1000>>, 256000) >>

\* what the fields of a local OBJECT_MATERIAL that was never assigned may
\* hold when they are read: anything; two patterns stand for it
UninitMaterials ==
    { Material("", <<0, 0, 0>>, <<0, 0, 0>>, 0),
      Material("", <<-431602, 7, 7>>, <<7, -431602, 7>>, -431602) }

\* the loop of FindMaterial: index of the first entry at or after `index`
\* whose tag compares equal, or the size when there is none
RECURSIVE ScanMaterials(_, _)
ScanMaterials(tag, index) ==
    IF index <= Len(m_objectMaterials)
    THEN IF m_objectMaterials[index].tag = tag
         THEN index
         ELSE ScanMaterials(tag, index + 1)
    ELSE Len(m_objectMaterials) + 1

\* FindMaterial with a bug: bFound is what it returns
FindMaterial_ReturnsFound(tag, material) ==
    IF Len(m_objectMaterials) = 0
    THEN [ret |-> FALSE, material |-> material]
    ELSE LET index == ScanMaterials(tag, 1) IN
         [ret |-> index <= Len(m_objectMaterials),
          material |->
             IF index <= Len(m_objectMaterials)
             THEN [material EXCEPT
                     !.diffuseColor = m_objectMaterials[index].diffuseColor,
                     !.specularColor = m_objectMaterials[index].specularColor,
                     !.shininess = m_objectMaterials[index].shininess]
             ELSE material]

\* FindMaterial(tag, material): the return value and the caller's material
\* afterwards.  The result is false only for an empty list; bFound is not
\* returned.
FindMaterial(tag, material) ==
    IF Len(m_objectMaterials) = 0
    THEN [ret |-> FALSE, material |-> material]
    ELSE LET index == ScanMaterials(tag, 1) IN
         [ret |-> TRUE,
          material |->
             IF index <= Len(m_objectMaterials)
             THEN [material EXCEPT
                     !.diffuseColor = m_objectMaterials[index].diffuseColor,
                     !.specularColor = m_objectMaterials[index].specularColor,
                     !.shininess = m_objectMaterials[index].shininess]
             ELSE material]

DefineObjectMaterials ==
    /\ Alive
    /\ m_objectMaterials' = m_objectMaterials \o SceneMaterials
    /\ passState' = AfterSetup
    /\ lastCall' = Call("DefineObjectMaterials", "", <<>>, 0, 0)
    /\ UNCHANGED << m_textureIDs, m_loadedTextures, glGenCount, glDeleted,
                    glActiveUnit, glUnits, uniforms, renderLog,
                    m_pShaderManager, registered, objState >>

----------------------------------------------------------------------------
(* The shader binders.  Each is given as the ordered events it issues; a    *)
(* "call" event marks the binder's invocation, a "uniform" event is one     *)
(* setter call on the shader manager.                                       *)

Event(kind, name, value) == [kind |-> kind, name |-> name, value |-> value]

\* m_pShaderManager->set...Value(name, value)
SetUniform(name, value) == Event("uniform", name, value)

\* the writes of a binder guarded by  if (NULL != m_pShaderManager)
IfShaderManager(events) == IF m_pShaderManager # "NULL" THEN events ELSE << >>

\* SetShaderColor(r, g, b, a)
SetShaderColorEvents(color) ==
    << Event("call", "SetShaderColor", << >>) >> \o
    IfShaderManager(<< SetUniform("bUseTexture", <<0>>),
                       SetUniform("objectColor", color) >>)

\* SetShaderTexture with a bug: a tag that is not found is not forwarded
SetShaderTextureEvents_SkipMiss(textureTag) ==
    << Event("call", "SetShaderTexture", << >>) >> \o
    IfShaderManager(
        IF FindTextureSlot(textureTag) = -1
        THEN << >>
        ELSE << SetUniform("bUseTexture", <<1>>),
                SetUniform("objectTexture", << FindTextureSlot(textureTag) >>) >>)

\* SetShaderTexture(textureTag)
SetShaderTextureEvents(textureTag) ==
    << Event("call", "SetShaderTexture", << >>) >> \o
    IfShaderManager(<< SetUniform("bUseTexture", <<1>>),
                       SetUniform("objectTexture",
                                  << FindTextureSlot(textureTag) >>) >>)

\* SetTextureUVScale(u, v)
SetTextureUVScaleEvents(u, v) ==
    << Event("call", "SetTextureUVScale", << >>) >> \o
    IfShaderManager(<< SetUniform("UVscale", <<u, v>>) >>)

\* SetShaderMaterial(materialTag); `uninit` is what the unassigned local
\* `material` holds.  The three setters are not guarded by a NULL test.
SetShaderMaterialEvents(materialTag, uninit) ==
    << Event("call", "SetShaderMaterial", << >>) >> \o
    ( IF Len(m_objectMaterials) > 0
      THEN LET found == FindMaterial(materialTag, uninit) IN
           IF found.ret
           THEN << SetUniform("material.diffuseColor",
                              found.material.diffuseColor),
                   SetUniform("material.specularColor",
                              found.material.specularColor),
                   SetUniform("material.shininess",
                              << found.material.shininess >>) >>
           ELSE << >>
      ELSE << >> )

----------------------------------------------------------------------------
(* The transform composer *)

\* cos and sin of the angles the callers pass, as glm::rotate computes them
\* from glm::radians(degrees), rounded to 1/FixedOne
CosFx(degrees) ==
    CASE degrees = 0   -> FixedOne
      [] degrees = 45  -> 707
      [] degrees = 90  -> 0
      [] degrees = 180 -> -FixedOne
      [] degrees = -90 -> 0
      [] degrees = -78 -> 208

SinFx(degrees) ==
    CASE degrees = 0   -> 0
      [] degrees = 45  -> 707
      [] degrees = 90  -> FixedOne
      [] degrees = 180 -> 0
      [] degrees = -90 -> -FixedOne
      [] degrees = -78 -> -978

\* a mat4 is the tuple of its four rows, each a tuple of four values
Mat4(rows) == rows

\* glm::scale(v)
ScaleMatrix(v) ==
    Mat4(<< <<v[1], 0, 0, 0>>,
            <<0, v[2], 0, 0>>,
            <<0, 0, v[3], 0>>,
            <<0, 0, 0, FixedOne>> >>)

\* glm::rotate(angle, (1, 0, 0))
RotateX(degrees) ==
    LET c == CosFx(degrees)  s == SinFx(degrees) IN
    Mat4(<< <<FixedOne, 0, 0, 0>>,
            <<0, c, -s, 0>>,
            <<0, s, c, 0>>,
            <<0, 0, 0, FixedOne>> >>)

\* glm::rotate(angle, (0, 1, 0))
RotateY(degrees) ==
    LET c == CosFx(degrees)  s == SinFx(degrees) IN
    Mat4(<< <<c, 0, s, 0>>,
            <<0, FixedOne, 0, 0>>,
            <<-s, 0, c, 0>>,
            <<0, 0, 0, FixedOne>> >>)

\* glm::rotate(angle, (0, 0, 1))
RotateZ(degrees) ==
    LET c == CosFx(degrees)  s == SinFx(degrees) IN
    Mat4(<< <<c, -s, 0, 0>>,
            <<s, c, 0, 0>>,
            <<0, 0, FixedOne, 0>>,
            <<0, 0, 0, FixedOne>> >>)

\* glm::translate(v)
TranslateMatrix(v) ==
    Mat4(<< <<FixedOne, 0, 0, v[1]>>,
            <<0, FixedOne, 0, v[2]>>,
            <<0, 0, FixedOne, v[3]>>,
            <<0, 0, 0, FixedOne>> >>)

\* a fixed-point product sum, rounded to the nearest unit
FxRound(x) == (2 * x + FixedOne) \div (2 * FixedOne)

\* one element of mat4 * mat4
Dot(A, B, r, c) ==
    FxRound(A[r][1] * B[1][c] + A[r][2] * B[2][c]
            + A[r][3] * B[3][c] + A[r][4] * B[4][c])

\* mat4 * mat4
MatMul(A, B) ==
    << << Dot(A, B, 1, 1), Dot(A, B, 1, 2), Dot(A, B, 1, 3), Dot(A, B, 1, 4) >>,
       << Dot(A, B, 2, 1), Dot(A, B, 2, 2), Dot(A, B, 2, 3), Dot(A, B, 2, 4) >>,
       << Dot(A, B, 3, 1), Dot(A, B, 3, 2), Dot(A, B, 3, 3), Dot(A, B, 3, 4) >>,
       << Dot(A, B, 4, 1), Dot(A, B, 4, 2), Dot(A, B, 4, 3), Dot(A, B, 4, 4) >> >>

\* the composition with a bug: the factors in the opposite order
ModelMatrix_Reversed(scaleXYZ, XrotationDegrees, YrotationDegrees, ZrotationDegrees, positionXYZ) ==
    MatMul(MatMul(MatMul(MatMul(ScaleMatrix(scaleXYZ),
                                RotateX(XrotationDegrees)),
                         RotateY(YrotationDegrees)),
                  RotateZ(ZrotationDegrees)),
           TranslateMatrix(positionXYZ))

\* modelView = translation * rotationZ * rotationY * rotationX * scale
ModelMatrix(scaleXYZ, XrotationDegrees, YrotationDegrees, ZrotationDegrees, positionXYZ) ==
    MatMul(MatMul(MatMul(MatMul(TranslateMatrix(positionXYZ),
                                RotateZ(ZrotationDegrees)),
                         RotateY(YrotationDegrees)),
                  RotateX(XrotationDegrees)),
           ScaleMatrix(scaleXYZ))

\* the 16 floats of a mat4 as setMat4Value receives them: column by column
ColumnMajor(M) ==
    << M[1][1], M[2][1], M[3][1], M[4][1],
       M[1][2], M[2][2], M[3][2], M[4][2],
       M[1][3], M[2][3], M[3][3], M[4][3],
       M[1][4], M[2][4], M[3][4], M[4][4] >>

\* the end of SetTransformations: modelView goes to the "model" uniform
ModelPush(modelView) ==
    << Event("call", "SetTransformations", << >>) >> \o
    IfShaderManager(<< SetUniform("model", ColumnMajor(modelView)) >>)

\* SetTransformations(scaleXYZ, Xrot, Yrot, Zrot, positionXYZ)
SetTransformationsEvents(scaleXYZ, XrotationDegrees, YrotationDegrees, ZrotationDegrees, positionXYZ) ==
    ModelPush(ModelMatrix(scaleXYZ, XrotationDegrees, YrotationDegrees,
                          ZrotationDegrees, positionXYZ))

\* the uniform setter calls among `events`
UniformWrites(events) ==
    Cardinality({ i \in 1 .. Len(events) : events[i].kind = "uniform" })

\* the uniforms after `events`: each name holds the value last written
ApplyEvents(u, events) ==
    [n \in DOMAIN u |->
        LET at == { i \in 1 .. Len(events) :
                      events[i].kind = "uniform" /\ events[i].name = n }
        IN  IF at = {} THEN u[n]
            ELSE events[CHOOSE i \in at : \A j \in at : j <= i].value]

\* a binder with a bug: it empties the texture collection
Binder_DropsTextures(op, tag, args, events) ==
    /\ Alive
    /\ uniforms' = ApplyEvents(uniforms, events)
    /\ m_loadedTextures' = 0
    /\ lastCall' = Call(op, tag, args, 0, UniformWrites(events))
    /\ UNCHANGED << m_textureIDs, m_objectMaterials,
                    glGenCount, glDeleted, glActiveUnit, glUnits, renderLog,
                    passState, m_pShaderManager, registered, objState >>

\* a binder called on its own: only the uniforms change
Binder(op, tag, args, events) ==
    /\ Alive
    /\ uniforms' = ApplyEvents(uniforms, events)
    /\ lastCall' = Call(op, tag, args, 0, UniformWrites(events))
    /\ UNCHANGED << m_textureIDs, m_loadedTextures, m_objectMaterials,
                    glGenCount, glDeleted, glActiveUnit, glUnits, renderLog,
                    passState, m_pShaderManager, registered, objState >>

SetShaderColor(color) ==
    Binder("SetShaderColor", "", color, SetShaderColorEvents(color))

SetShaderTexture(textureTag) ==
    Binder("SetShaderTexture", textureTag, << >>,
           SetShaderTextureEvents(textureTag))

SetTextureUVScale(u, v) ==
    Binder("SetTextureUVScale", "", <<u, v>>, SetTextureUVScaleEvents(u, v))

SetShaderMaterial(materialTag) ==
    \E uninit \in UninitMaterials :
        Binder("SetShaderMaterial", materialTag, << >>,
               SetShaderMaterialEvents(materialTag, uninit))

SetTransformations(scaleXYZ, XrotationDegrees, YrotationDegrees, ZrotationDegrees, positionXYZ) ==
    Binder("SetTransformations", "",
           scaleXYZ \o <<XrotationDegrees, YrotationDegrees, ZrotationDegrees>>
               \o positionXYZ,
           SetTransformationsEvents(scaleXYZ, XrotationDegrees,
                                    YrotationDegrees, ZrotationDegrees,
                                    positionXYZ))

\* a lookup called on its own: nothing but the answer
Query(op, tag, args, ret) ==
    /\ Alive
    /\ lastCall' = Call(op, tag, args, ret, 0)
    /\ UNCHANGED << m_textureIDs, m_loadedTextures, m_objectMaterials,
                    glGenCount, glDeleted, glActiveUnit, glUnits, uniforms,
                    renderLog, passState, m_pShaderManager, registered,
                    objState >>

\* int FindTextureSlot(tag) called on its own
CallFindTextureSlot(tag) ==
    Query("FindTextureSlot", tag, << >>, FindTextureSlot(tag))

\* int FindTextureID(tag) called on its own
CallFindTextureID(tag) ==
    Query("FindTextureID", tag, << >>, FindTextureID(tag))

\* the three value fields of an OBJECT_MATERIAL, as seven numbers
MaterialValues(material) ==
    material.diffuseColor \o material.specularColor \o << material.shininess >>

\* bool FindMaterial(tag, material) called on its own; the call's numbers
\* are the values of the caller's material before and after the call
CallFindMaterial(tag, material) ==
    LET found == FindMaterial(tag, material) IN
    Query("FindMaterial", tag,
          MaterialValues(material) \o MaterialValues(found.material),
          BoolInt(found.ret))

----------------------------------------------------------------------------
(* The render pass *)

\* the elements RenderScene draws, in order.  `texture` is the tag given to
\* SetShaderTexture, or "" when the element calls SetShaderColor(color);
\* `flags` are the arguments written in the draw call.
SceneElements ==
    <<
       \* lines 583-588
       [mesh |-> "DrawBoxMesh", flags |-> <<>>,
        scale |-> <<9500, 500, 5500>>, rot |-> <<0, 0, 0>>, pos |-> <<-1000, -900, 6000>>,
        texture |-> "planeTexture", color |-> <<>>, material |-> "matte"],
       \* lines 594-599
       [mesh |-> "DrawBoxMesh", flags |-> <<>>,
        scale |-> <<1500, 1700, 1500>>, rot |-> <<0, 45, 0>>, pos |-> <<2000, 200, 5000>>,
        texture |-> "redTexture", color |-> <<>>, material |-> "shinier"],
       \* lines 602-607
       [mesh |-> "DrawPyramid4Mesh", flags |-> <<>>,
        scale |-> <<1500, 1500, 1500>>, rot |-> <<0, 45, 0>>, pos |-> <<2000, 1800, 5000>>,
        texture |-> "midTexture", color |-> <<>>, material |-> "shinier"],
       \* lines 610-615
       [mesh |-> "DrawBoxMesh", flags |-> <<>>,
        scale |-> <<1000, 800, 1000>>, rot |-> <<0, 45, 0>>, pos |-> <<2000, 1900, 5000>>,
        texture |-> "topTexture", color |-> <<>>, material |-> "shinier"],
       \* lines 618-623
       [mesh |-> "DrawBoxMesh", flags |-> <<>>,
        scale |-> <<700, 400, 700>>, rot |-> <<0, 45, 0>>, pos |-> <<2000, 2300, 5000>>,
        texture |-> "corkTexture", color |-> <<>>, material |-> "matte"],
       \* lines 628-633
       [mesh |-> "DrawCylinderMesh", flags |-> <<0, 1, 1>>,
        scale |-> <<700, 1200, 700>>, rot |-> <<0, 45, 0>>, pos |-> <<2500, -600, 7400>>,
        texture |-> "cupTexture", color |-> <<>>, material |-> "gold"],
       \* lines 640-645
       [mesh |-> "DrawCylinderMesh", flags |-> <<0, 1, 1>>,
        scale |-> <<900, 1000, 900>>, rot |-> <<0, 0, 0>>, pos |-> <<-900, -700, 5300>>,
        texture |-> "pot2", color |-> <<>>, material |-> "shinier"],
       \* lines 648-653
       [mesh |-> "DrawTaperedCylinderMesh", flags |-> <<0, 0, 1>>,
        scale |-> <<900, 2800, 900>>, rot |-> <<0, 0, 0>>, pos |-> <<-900, 200, 5300>>,
        texture |-> "pot2", color |-> <<>>, material |-> "shinier"],
       \* lines 656-661
       [mesh |-> "DrawTaperedCylinderMesh", flags |-> <<0, 0, 1>>,
        scale |-> <<900, 1000, 900>>, rot |-> <<180, 0, 0>>, pos |-> <<-900, 3700, 5300>>,
        texture |-> "pot1", color |-> <<>>, material |-> "matte"],
       \* lines 664-669
       [mesh |-> "DrawBoxMesh", flags |-> <<>>,
        scale |-> <<400, 500, 500>>, rot |-> <<-78, 0, 0>>, pos |-> <<-900, 2300, 4500>>,
        texture |-> "gripTexture", color |-> <<>>, material |-> "matte"],
       \* lines 672-677
       [mesh |-> "DrawBoxMesh", flags |-> <<>>,
        scale |-> <<400, 500, 1600>>, rot |-> <<-78, 0, 0>>, pos |-> <<-900, 2000, 4100>>,
        texture |-> "gripTexture", color |-> <<>>, material |-> "matte"],
       \* lines 683-688
       [mesh |-> "DrawCylinderMesh", flags |-> <<>>,
        scale |-> <<800, 2500, 800>>, rot |-> <<0, 0, 0>>, pos |-> <<-2900, -700, 5300>>,
        texture |-> "bottleTexture", color |-> <<>>, material |-> "shinier"],
       \* lines 691-696
       [mesh |-> "DrawTaperedCylinderMesh", flags |-> <<>>,
        scale |-> <<800, 500, 800>>, rot |-> <<0, 0, 0>>, pos |-> <<-2900, 1800, 5300>>,
        texture |-> "bottleTexture", color |-> <<>>, material |-> "shinier"],
       \* lines 699-704
       [mesh |-> "DrawCylinderMesh", flags |-> <<0, 1, 1>>,
        scale |-> <<400, 500, 400>>, rot |-> <<0, 0, 0>>, pos |-> <<-2900, 2300, 5300>>,
        texture |-> "bottleTexture", color |-> <<>>, material |-> "shinier"],
       \* lines 710-715
       [mesh |-> "DrawConeMesh", flags |-> <<>>,
        scale |-> <<800, 2500, 800>>, rot |-> <<0, 0, 0>>, pos |-> <<-4600, 0, 5300>>,
        texture |-> "corkTexture", color |-> <<>>, material |-> "matte"],
       \* lines 718-723
       [mesh |-> "DrawHalfSphereMesh", flags |-> <<>>,
        scale |-> <<800, 800, 800>>, rot |-> <<180, 0, 0>>, pos |-> <<-4600, -20, 5300>>,
        texture |-> "corkTexture", color |-> <<>>, material |-> "matte"],
       \* lines 731-736
       [mesh |-> "DrawBoxMesh", flags |-> <<>>,
        scale |-> <<3800, 700, 1500>>, rot |-> <<0, 0, 0>>, pos |-> <<-1500, -500, 7500>>,
        texture |-> "whiteTexture", color |-> <<>>, material |-> "shinier"],
       \* lines 739-744
       [mesh |-> "DrawCylinderMesh", flags |-> <<>>,
        scale |-> <<770, 700, 770>>, rot |-> <<0, 0, 0>>, pos |-> <<-3200, -850, 7500>>,
        texture |-> "whiteTexture", color |-> <<>>, material |-> "shinier"],
       \* lines 747-752
       [mesh |-> "DrawCylinderMesh", flags |-> <<>>,
        scale |-> <<770, 700, 770>>, rot |-> <<0, 0, 0>>, pos |-> <<200, -850, 7500>>,
        texture |-> "whiteTexture", color |-> <<>>, material |-> "shinier"],
       \* lines 756-761
       [mesh |-> "DrawBoxMesh", flags |-> <<>>,
        scale |-> <<3800, 300, 1580>>, rot |-> <<0, 0, 0>>, pos |-> <<-1500, 0, 7500>>,
        texture |-> "lidTexture", color |-> <<>>, material |-> "shinier"],
       \* lines 764-769
       [mesh |-> "DrawCylinderMesh", flags |-> <<>>,
        scale |-> <<800, 300, 800>>, rot |-> <<0, 0, 0>>, pos |-> <<-3200, -150, 7500>>,
        texture |-> "lidTexture", color |-> <<>>, material |-> "shinier"],
       \* lines 772-777
       [mesh |-> "DrawCylinderMesh", flags |-> <<>>,
        scale |-> <<800, 300, 800>>, rot |-> <<0, 0, 0>>, pos |-> <<200, -150, 7500>>,
        texture |-> "lidTexture", color |-> <<>>, material |-> "shinier"],
       \* lines 780-785
       [mesh |-> "DrawCylinderMesh", flags |-> <<>>,
        scale |-> <<300, 200, 300>>, rot |-> <<0, 0, 0>>, pos |-> <<-1500, 150, 7500>>,
        texture |-> "knobTexture", color |-> <<>>, material |-> "shinier"],
       \* lines 791-796
       [mesh |-> "DrawPlaneMesh", flags |-> <<>>,
        scale |-> <<11000, 500, 7000>>, rot |-> <<90, 0, 0>>, pos |-> <<-1000, 5450, -970>>,
        texture |-> "wall", color |-> <<>>, material |-> "matte"],
       \* lines 802-807
       [mesh |-> "DrawBoxMesh", flags |-> <<>>,
        scale |-> <<22000, 500, 15000>>, rot |-> <<0, 0, 0>>, pos |-> <<-1000, -1400, 6000>>,
        texture |-> "planeTexture", color |-> <<>>, material |-> "shinier"],
       \* lines 813-818
       [mesh |-> "DrawSphereMesh", flags |-> <<>>,
        scale |-> <<800, 800, 800>>, rot |-> <<0, 0, 0>>, pos |-> <<-5100, 0, 7300>>,
        texture |-> "", color |-> <<100, 200, 300, 800>>, material |-> "glass"]
    >>

\* the modelView SetTransformations composes for each element
RECURSIVE SceneModelsFrom(_)
SceneModelsFrom(i) ==
    IF i > Len(SceneElements) THEN << >>
    ELSE LET e == SceneElements[i] IN
         << ModelMatrix(e.scale, e.rot[1], e.rot[2], e.rot[3], e.pos) >>
         \o SceneModelsFrom(i + 1)

SceneModels == SceneModelsFrom(1)

\* one element of the pass with a bug: the texture is not pushed again when
\* the previous element used the same tag
ElementEvents_Diffed(i, uninit) ==
    LET e == SceneElements[i] IN
    ModelPush(SceneModels[i])
    \o ( IF e.texture = "" THEN SetShaderColorEvents(e.color)
         ELSE IF i > 1 /\ SceneElements[i - 1].texture = e.texture THEN << >>
         ELSE SetShaderTextureEvents(e.texture) )
    \o SetShaderMaterialEvents(e.material, uninit)
    \o << Event("draw", e.mesh, e.flags) >>

\* one element of the pass with a bug: the mesh is drawn before its state
\* is pushed
ElementEvents_DrawFirst(i, uninit) ==
    LET e == SceneElements[i] IN
    << Event("draw", e.mesh, e.flags) >>
    \o ModelPush(SceneModels[i])
    \o ( IF e.texture = "" THEN SetShaderColorEvents(e.color)
         ELSE SetShaderTextureEvents(e.texture) )
    \o SetShaderMaterialEvents(e.material, uninit)

\* one element of the pass: transform, texture or color, material, draw
ElementEvents(i, uninit) ==
    LET e == SceneElements[i] IN
    ModelPush(SceneModels[i])
    \o ( IF e.texture = "" THEN SetShaderColorEvents(e.color)
         ELSE SetShaderTextureEvents(e.texture) )
    \o SetShaderMaterialEvents(e.material, uninit)
    \o << Event("draw", e.mesh, e.flags) >>

RECURSIVE ElementsFrom(_, _)
ElementsFrom(i, uninit) ==
    IF i > Len(SceneElements) THEN << >>
    ELSE ElementEvents(i, uninit) \o ElementsFrom(i + 1, uninit)

\* the pass with a bug: the textures are bound on the first pass only
RenderEvents_BindOnce(uninit) ==
    (IF passState # "none" THEN << >> ELSE BindEvents) \o ElementsFrom(1, uninit)

\* everything RenderScene issues: BindGLTextures, then the elements
RenderEvents(uninit) == BindEvents \o ElementsFrom(1, uninit)

\* RenderScene(); `uninit` is what SetShaderMaterial's unassigned local holds
\* (it is read only when a material tag misses a non-empty list)
RenderScene ==
    /\ Alive
    /\ \E uninit \in UninitMaterials :
         LET events == RenderEvents(uninit) IN
         /\ renderLog' = events
         /\ uniforms' = ApplyEvents(uniforms, events)
         /\ lastCall' = Call("RenderScene", "", << >>, 0, UniformWrites(events))
    /\ BindGLTexturesEffect
    /\ passState' = IF Replay THEN "replayed" ELSE "once"
    /\ UNCHANGED << m_textureIDs, m_loadedTextures, m_objectMaterials,
                    glGenCount, glDeleted, m_pShaderManager, registered,
                    objState >>

----------------------------------------------------------------------------
(* Construction *)

\* SceneManager(pShaderManager) on a fresh GL context and shader program
Init ==
    /\ m_textureIDs = [i \in Slots |-> [tag |-> "/0", ID |-> -1]]
    /\ m_loadedTextures = 0
    /\ m_objectMaterials = << >>
    /\ glGenCount = 0
    /\ glDeleted = {}
    /\ glActiveUnit = 0
    /\ glUnits = [u \in Slots |-> 0]
    /\ uniforms = [n \in UniformNames |-> << >>]
    /\ renderLog = << >>
    /\ passState = "none"
    /\ lastCall = Call("SceneManager", "", <<>>, 0, 0)
    /\ m_pShaderManager = "sink"
    /\ registered = << >>
    /\ objState = "alive"

----------------------------------------------------------------------------
(* The registry's callers: any sequence of registrations and teardowns *)

\* occupied slots after the first that carry the first slot's tag
DupCount ==
    Cardinality({ i \in 1 .. (m_loadedTextures - 1) :
                    i \in Slots /\ m_textureIDs[i].tag = TagPool[1] })

\* the tag of the next registration: the pool's tag for that slot, or the
\* first tag again
RegisterTags ==
    { TagPool[Min(m_loadedTextures + 1, Len(TagPool))] } \cup
    ( IF m_loadedTextures > 0 /\ DupCount < MaxDupTags
      THEN { TagPool[1] } ELSE {} )

\* the decoder's answers a registration is tried with
RegisterDecodes ==
    { d \in DecodeResults :
        (d.ok /\ d.channels \notin {3, 4})
            => glGenCount - m_loadedTextures < MaxOrphans }

NextRegistry ==
    \/ \E tag \in RegisterTags, d \in RegisterDecodes :
          /\ glGenCount < MaxGen
          /\ CreateGLTexture(tag, d.ok, d.channels)
    \/ DestroyGLTextures
    \/ Destructor

SpecRegistry == Init /\ [][NextRegistry]_vars

----------------------------------------------------------------------------
(* The binders' callers: a few registrations and definitions, then any      *)
(* sequence of binder calls                                                 *)

\* successful registrations the binders are tried against
MaxBinderTextures == 2

\* DefineObjectMaterials calls the binders are tried against
MaxDefines == 1

BinderTextureTags == { TagPool[1], TagPool[2], UnknownTag }

BinderMaterialTags == { "matte", "glass", UnknownTag }

BinderColors == { <<100, 200, 300, 800>>, <<1000, 1000, 1000, 1000>> }

NextBinder ==
    \/ /\ m_loadedTextures < MaxBinderTextures
       /\ glGenCount < MaxGen
       /\ CreateGLTexture(TagPool[m_loadedTextures + 1], TRUE, 3)
    \/ /\ Len(m_objectMaterials) < MaxDefines * Len(SceneMaterials)
       /\ DefineObjectMaterials
    \/ \E tag \in BinderTextureTags : SetShaderTexture(tag)
    \/ \E tag \in BinderMaterialTags : SetShaderMaterial(tag)
    \/ \E color \in BinderColors : SetShaderColor(color)
    \/ SetTextureUVScale(FixedOne, FixedOne)

SpecBinder == Init /\ [][NextBinder]_vars

----------------------------------------------------------------------------
(* The transform composer's callers *)

ScaleInputs ==
    { <<2 * FixedOne, FixedOne, FixedOne>>,
      <<FixedOne, 2 * FixedOne, 3 * FixedOne>> }

RightAngles == { 0, 90, 180, -90 }

PositionInputs ==
    { <<FixedOne, 0, 0>>, <<-FixedOne, 2 * FixedOne, 3 * FixedOne>> }

NextTransform ==
    \E scaleXYZ \in ScaleInputs, rx \in RightAngles, ry \in RightAngles,
       rz \in RightAngles, positionXYZ \in PositionInputs :
        SetTransformations(scaleXYZ, rx, ry, rz, positionXYZ)

SpecTransform == Init /\ [][NextTransform]_vars

----------------------------------------------------------------------------
(* The render pass's callers: setup calls in any order and number, binder   *)
(* calls and render passes                                                  *)

\* successful registrations the render pass is tried against
MaxRenderTextures == 2

\* texture names handed out before the render pass's callers stop registering
MaxRenderGen == 3

NextRender ==
    \/ /\ m_loadedTextures < MaxRenderTextures
       /\ glGenCount < MaxRenderGen
       /\ \E d \in { r \in DecodeResults : r.channels \in {0, 3} } :
            CreateGLTexture(TagPool[m_loadedTextures + 1], d.ok, d.channels)
    \/ /\ Len(m_objectMaterials) < MaxDefines * Len(SceneMaterials)
       /\ DefineObjectMaterials
    \/ DestroyGLTextures
    \/ SetShaderColor(<<FixedOne, FixedOne, FixedOne, FixedOne>>)
    \/ RenderScene

SpecRender == Init /\ [][NextRender]_vars

----------------------------------------------------------------------------
(* Properties of the texture registry, checked under SpecRegistry *)

\* the handles stored in the occupied slots
HeldHandles == { m_textureIDs[i].ID : i \in 0 .. (m_loadedTextures - 1) }

\* 0-based position of the first successful registration of `tag`, else -1
FirstRegistered(tag) ==
    LET at == { i \in 1 .. Len(registered) : registered[i] = tag }
    IN  IF at = {} THEN -1
        ELSE (CHOOSE i \in at : \A j \in at : i <= j) - 1

DistinctTags ==
    \A i, j \in 1 .. Len(registered) : registered[i] = registered[j] => i = j

\* C1: with all 16 slots occupied, a CreateGLTexture call whose image decodes
\* with 3 or 4 channels returns false and changes neither the count nor any
\* entry, and writes nothing outside slots 0..15.
C1_RegisterAtCapacityRefused ==
    [][ ( /\ lastCall'.op = "CreateGLTexture"
          /\ m_loadedTextures = MaxTextures
          /\ lastCall'.args[1] \in {3, 4} )
        => ( /\ lastCall'.ret = 0
             /\ m_textureIDs' = m_textureIDs
             /\ m_loadedTextures' = MaxTextures
             /\ objState' = "alive" ) ]_vars

\* C3: DestroyGLTextures (called directly or by the destructor) releases
\* exactly the handles held in the occupied slots, allocates no texture and
\* leaves the count at 0, so that a second call releases nothing.
C3_TeardownReleasesEachHandleOnce ==
    [][ lastCall'.op \in {"DestroyGLTextures", "~SceneManager"}
        => ( /\ glDeleted' = glDeleted \cup HeldHandles
             /\ glGenCount' = glGenCount
             /\ m_loadedTextures' = 0 ) ]_vars

\* C5: after at most 16 successful registrations, FindTextureSlot(tag) is the
\* 0-based position of the first successful registration of that tag (each
\* tag's own registration index when the tags are distinct), and -1 for a
\* tag no registration carried.
C5_LookupSlotIsRegistrationIndex ==
    (Alive /\ Len(registered) <= MaxTextures) =>
        /\ \A tag \in AllTags : FindTextureSlot(tag) = FirstRegistered(tag)
        /\ DistinctTags =>
              \A i \in 1 .. Len(registered) :
                  FindTextureSlot(registered[i]) = i - 1

\* C5 witness: 16 registrations, the first tag registered twice, and a tag
\* that was never registered.
C5_Witness ==
    /\ Alive
    /\ Len(registered) = MaxTextures
    /\ \E i \in 2 .. Len(registered) : registered[i] = registered[1]
    /\ FindTextureSlot(UnknownTag) = -1
    /\ FindTextureSlot(registered[MaxTextures]) = MaxTextures - 1

\* C6: a CreateGLTexture call whose image does not decode (0) or has a
\* channel count other than 3 and 4 returns false and leaves every slot and
\* the count as they were; both lookups answer for the failed tag as they did
\* before, which is -1 unless an earlier registration carried the tag.
C6_FailedRegisterLeavesRegistry ==
    [][ ( /\ lastCall'.op = "CreateGLTexture"
          /\ lastCall'.args[1] \notin {3, 4} )
        => ( /\ lastCall'.ret = 0
             /\ m_textureIDs' = m_textureIDs
             /\ m_loadedTextures' = m_loadedTextures
             /\ \A t \in RegisterTags :
                   t = lastCall'.tag
                   => /\ FindTextureSlot(t)' = FindTextureSlot(t)
                      /\ FindTextureID(t)' = FindTextureID(t)
                      /\ FirstRegistered(t) = -1
                           => /\ FindTextureSlot(t)' = -1
                              /\ FindTextureID(t)' = -1 ) ]_vars

\* C6 witness: a registration that failed on its channel count, for a tag not
\* registered before, with two textures already registered.
C6_Witness ==
    /\ lastCall.op = "CreateGLTexture"
    /\ lastCall.ret = 0
    /\ lastCall.args[1] \in {1, 2}
    /\ m_loadedTextures = 2
    /\ FirstRegistered(lastCall.tag) = -1

\* C7: right after DestroyGLTextures the count is 0 and both lookups return
\* -1 for every tag, the previously registered ones included.
C7_LookupsMissAfterTeardown ==
    (lastCall.op = "DestroyGLTextures") =>
        /\ m_loadedTextures = 0
        /\ \A tag \in AllTags :
              FindTextureSlot(tag) = -1 /\ FindTextureID(tag) = -1

\* C7 witness: a teardown of a registry that held at least three textures.
C7_Witness ==
    /\ lastCall.op = "DestroyGLTextures"
    /\ m_textureIDs[0].tag = TagPool[1]
    /\ m_textureIDs[1].tag # "/0"
    /\ m_textureIDs[2].tag # "/0"

----------------------------------------------------------------------------
(* Properties of the binders, checked under SpecBinder *)

MaterialUniforms ==
    { "material.diffuseColor", "material.specularColor", "material.shininess" }

\* some entry of m_objectMaterials carries `tag`
MaterialDefined(tag) ==
    \E i \in 1 .. Len(m_objectMaterials) : m_objectMaterials[i].tag = tag

\* the first entry of m_objectMaterials that carries `tag`
FirstMaterial(tag) ==
    LET at == { i \in 1 .. Len(m_objectMaterials) :
                  m_objectMaterials[i].tag = tag }
    IN  m_objectMaterials[CHOOSE i \in at : \A j \in at : i <= j]

\* C2: a SetShaderMaterial call whose tag matches no material entry makes no
\* uniform setter call, whether the material list is empty or not: the three
\* material uniforms keep the values they had.
C2_MaterialMissWritesNothing ==
    [][ ( /\ lastCall'.op = "SetShaderMaterial"
          /\ ~MaterialDefined(lastCall'.tag) )
        => ( /\ lastCall'.writes = 0
             /\ \A n \in MaterialUniforms : uniforms'[n] = uniforms[n] ) ]_vars

\* C9: SetShaderTexture(tag) leaves bUseTexture = true and objectTexture =
\* the 0-based position of the tag's first registration, -1 when the tag was
\* never registered, and touches no material uniform; SetShaderMaterial with
\* a defined tag leaves the three material uniforms at the stored values of
\* that material and touches neither bUseTexture nor objectTexture.
C9_TextureAndMaterialResolve ==
    [][ /\ lastCall'.op = "SetShaderTexture"
           => ( /\ uniforms'["bUseTexture"] = <<1>>
                /\ \A t \in AllTags :
                      t = lastCall'.tag
                      => uniforms'["objectTexture"] = << FirstRegistered(t) >>
                /\ \A n \in MaterialUniforms : uniforms'[n] = uniforms[n] )
        /\ ( lastCall'.op = "SetShaderMaterial"
             /\ MaterialDefined(lastCall'.tag) )
           => ( /\ \A i \in 1 .. Len(m_objectMaterials) :
                      m_objectMaterials[i] = FirstMaterial(lastCall'.tag)
                      => /\ uniforms'["material.diffuseColor"] =
                               m_objectMaterials[i].diffuseColor
                         /\ uniforms'["material.specularColor"] =
                               m_objectMaterials[i].specularColor
                         /\ uniforms'["material.shininess"] =
                               << m_objectMaterials[i].shininess >>
                /\ uniforms'["bUseTexture"] = uniforms["bUseTexture"]
                /\ uniforms'["objectTexture"] = uniforms["objectTexture"] )
      ]_vars

\* C9 witness: one texture registered first, "matte" defined, the texture
\* tag and then the material tag resolved.
C9_Witness ==
    /\ lastCall.op = "SetShaderMaterial"
    /\ lastCall.tag = "matte"
    /\ Len(registered) >= 1
    /\ uniforms["bUseTexture"] = <<1>>
    /\ uniforms["objectTexture"] = <<0>>
    /\ uniforms["material.diffuseColor"] = <<300, 300, 400>>
    /\ uniforms["material.specularColor"] = <<0, 0, 0>>
    /\ uniforms["material.shininess"] = <<50>>

----------------------------------------------------------------------------
(* Properties of the render pass, checked under SpecRender *)

DrawIndexes == { i \in 1 .. Len(renderLog) : renderLog[i].kind = "draw" }

\* the log positions after the draw before d (or the start) and before d
Before(d) ==
    LET earlier == { p \in DrawIndexes : p < d }
        last == IF earlier = {} THEN 0
                ELSE CHOOSE p \in earlier : \A q \in earlier : q <= p
    IN  (last + 1) .. (d - 1)

\* a uniform push of `name` among the positions `seg` of the log
Pushed(seg, name) ==
    \E i \in seg : renderLog[i].kind = "uniform" /\ renderLog[i].name = name

\* a call of binder `name` among the positions `seg` of the log
Called(seg, name) ==
    \E i \in seg : renderLog[i].kind = "call" /\ renderLog[i].name = name

\* C4 as stated: before every draw of a pass there is a transform push, an
\* appearance push, a material apply and a UV-scale push.
C4_FullStateBeforeEachDraw ==
    (passState # "none") =>
        \A d \in DrawIndexes :
            LET seg == Before(d) IN
            /\ Called(seg, "SetTransformations") /\ Pushed(seg, "model")
            /\ Pushed(seg, "bUseTexture")
            /\ Called(seg, "SetShaderMaterial")
            /\ Pushed(seg, "UVscale")

\* C4 as amended: before every draw of a pass there is a transform push, an
\* appearance push (the texturing flag with the sampler slot or the flat
\* color) and a material apply; the pass pushes no UV scale at all.
C4_StateBeforeEachDrawNoUVScale ==
    (passState # "none") =>
        /\ Cardinality(DrawIndexes) = Len(SceneElements)
        /\ \A d \in DrawIndexes :
              LET seg == Before(d) IN
              /\ Called(seg, "SetTransformations") /\ Pushed(seg, "model")
              /\ Pushed(seg, "bUseTexture")
              /\ Pushed(seg, "objectTexture") \/ Pushed(seg, "objectColor")
              /\ Called(seg, "SetShaderMaterial")
        /\ \A i \in 1 .. Len(renderLog) :
              /\ renderLog[i].name # "UVscale"
              /\ renderLog[i].name # "SetTextureUVScale"

\* C4 witness: a pass over registered textures and defined materials, in
\* which two consecutive elements use the same texture and material.
C4_Witness ==
    /\ passState # "none"
    /\ lastCall.op = "RenderScene"
    /\ m_loadedTextures >= 1
    /\ Len(m_objectMaterials) > 0
    /\ \E i \in 2 .. Len(SceneElements) :
          /\ SceneElements[i].texture = SceneElements[i - 1].texture
          /\ SceneElements[i].material = SceneElements[i - 1].material
    /\ Cardinality(DrawIndexes) = Len(SceneElements)

\* C8: a RenderScene call that follows a RenderScene call with no
\* CreateGLTexture, DefineObjectMaterials or DestroyGLTextures call between
\* them issues the same ordered binds, uniform pushes and draws.
C8_RenderReplayIdentical ==
    [][ (lastCall'.op = "RenderScene" /\ Replay) => renderLog' = renderLog ]_vars

\* C8 witness: a second pass over a non-empty registry and defined materials
\* with no setup call since the pass before it.
C8_Witness ==
    /\ passState = "replayed"
    /\ lastCall.op = "RenderScene"
    /\ m_loadedTextures >= 1
    /\ Len(m_objectMaterials) > 0
    /\ Len(renderLog) > Len(SceneElements)

----------------------------------------------------------------------------
(* Properties of the transform composer, checked under SpecTransform *)

\* cos and sin of a multiple of 90 degrees, as integers
Cos90(degrees) ==
    CASE degrees = 0 -> 1 [] degrees = 90 -> 0
      [] degrees = 180 -> -1 [] degrees = -90 -> 0

Sin90(degrees) ==
    CASE degrees = 0 -> 0 [] degrees = 90 -> 1
      [] degrees = 180 -> 0 [] degrees = -90 -> -1

ScalePoint(s, p) ==
    << (s[1] * p[1]) \div FixedOne, (s[2] * p[2]) \div FixedOne,
       (s[3] * p[3]) \div FixedOne >>

AboutX(d, p) ==
    << p[1], p[2] * Cos90(d) - p[3] * Sin90(d), p[2] * Sin90(d) + p[3] * Cos90(d) >>

AboutY(d, p) ==
    << p[1] * Cos90(d) + p[3] * Sin90(d), p[2], p[3] * Cos90(d) - p[1] * Sin90(d) >>

AboutZ(d, p) ==
    << p[1] * Cos90(d) - p[2] * Sin90(d), p[1] * Sin90(d) + p[2] * Cos90(d), p[3] >>

MovePoint(t, p) == << p[1] + t[1], p[2] + t[2], p[3] + t[3] >>

\* scale, then rotate about X, then Y, then Z, then translate; `a` is the
\* argument tuple of SetTransformations
Stepwise(a, p) ==
    MovePoint(<<a[7], a[8], a[9]>>,
        AboutZ(a[6], AboutY(a[5], AboutX(a[4],
            ScalePoint(<<a[1], a[2], a[3]>>, p)))))

\* the world position of object-space point p under the 16 floats m of a
\* column-major mat4
WorldPoint(m, p) ==
    << (m[1] * p[1] + m[5] * p[2] + m[9] * p[3] + m[13] * FixedOne) \div FixedOne,
       (m[2] * p[1] + m[6] * p[2] + m[10] * p[3] + m[14] * FixedOne) \div FixedOne,
       (m[3] * p[1] + m[7] * p[2] + m[11] * p[3] + m[15] * FixedOne) \div FixedOne >>

TestPoints ==
    { <<FixedOne, 0, 0>>, <<0, FixedOne, 0>>, <<0, 0, FixedOne>>,
      <<FixedOne, 2 * FixedOne, 3 * FixedOne>> }

\* scale (2,1,1), rotation (0,90,0), translation (1,0,0)
RegressionArgs ==
    << 2 * FixedOne, FixedOne, FixedOne, 0, 90, 0, FixedOne, 0, 0 >>

\* C10: the matrix SetTransformations pushes maps every point to where
\* scaling it, rotating it about X, then Y, then Z, and translating it puts
\* it (rotations being multiples of 90 degrees); with scale (2,1,1),
\* rotation (0,90,0) and translation (1,0,0) the point (1,0,0) lands on
\* (1,0,-2).
C10_ModelMatrixOrder ==
    (lastCall.op = "SetTransformations") =>
        /\ \A p \in TestPoints :
              WorldPoint(uniforms["model"], p) = Stepwise(lastCall.args, p)
        /\ lastCall.args = RegressionArgs
              => WorldPoint(uniforms["model"], <<FixedOne, 0, 0>>)
                   = <<FixedOne, 0, -2 * FixedOne>>

\* C10 witness: the regression case has been composed and pushed.
C10_Witness ==
    /\ lastCall.op = "SetTransformations"
    /\ lastCall.args = RegressionArgs
    /\ Len(uniforms["model"]) = 16
    /\ WorldPoint(uniforms["model"], <<FixedOne, 0, 0>>)
          = <<FixedOne, 0, -2 * FixedOne>>

----------------------------------------------------------------------------
(* BindGLTextures and its callers: registrations that succeed or fail,     *)
(* teardowns and binds in any order                                        *)

\* successful registrations BindGLTextures is tried against
MaxBindTextures == 3

\* texture names handed out before the callers of BindGLTextures stop
\* registering
MaxBindGen == 7

NextBind ==
    \/ /\ m_loadedTextures < MaxBindTextures
       /\ glGenCount < MaxBindGen
       /\ \E d \in { r \in DecodeResults : r.channels \in {0, 1, 3} } :
            CreateGLTexture(TagPool[m_loadedTextures + 1], d.ok, d.channels)
    \/ DestroyGLTextures
    \/ BindGLTextures

SpecBind == Init /\ [][NextBind]_vars

\* C11: BindGLTextures leaves unit i bound to the handle stored in slot i for
\* every occupied slot i, visits the slots in increasing order (the unit left
\* selected is the highest occupied one), leaves every unit at or above the
\* count as it was, and changes neither the entries nor the count; a second
\* call right after the first leaves the units as the first left them.
C11_BindAllBindsSlotToUnit ==
    [][ lastCall'.op = "BindGLTextures"
        => ( /\ \A u \in Slots :
                   glUnits'[u] = IF u < m_loadedTextures
                                 THEN m_textureIDs[u].ID ELSE glUnits[u]
             /\ m_loadedTextures > 0 => glActiveUnit' = m_loadedTextures - 1
             /\ m_loadedTextures = 0 => glActiveUnit' = glActiveUnit
             /\ m_textureIDs' = m_textureIDs
             /\ m_loadedTextures' = m_loadedTextures
             /\ lastCall.op = "BindGLTextures" => glUnits' = glUnits ) ]_vars

\* C11 witness: a bind of a registry that holds fewer textures than an
\* earlier bind did: the occupied units carry the slots' handles, a unit
\* above the count still carries the handle bound there before.
C11_Witness ==
    /\ lastCall.op = "BindGLTextures"
    /\ m_loadedTextures >= 1
    /\ \A u \in 0 .. (m_loadedTextures - 1) : glUnits[u] = m_textureIDs[u].ID
    /\ glActiveUnit = m_loadedTextures - 1
    /\ \E u \in Slots : u >= m_loadedTextures /\ glUnits[u] > 0

----------------------------------------------------------------------------
(* The order of one render pass, checked under SpecRender *)

\* the number of draws of the log at or before position d
DrawRank(d) == Cardinality({ p \in DrawIndexes : p <= d })

\* the calls of binder `name` among the positions `seg` of the log
CallCount(seg, name) ==
    Cardinality({ i \in seg : renderLog[i].kind = "call"
                              /\ renderLog[i].name = name })

\* the positions of the log that hold a bind
BindIndexes == { i \in 1 .. Len(renderLog) : renderLog[i].kind = "bind" }

\* C12: in the log of a pass the binds come first, unit 0 upward, before any
\* binder call, uniform push or draw; there is one draw per scene element,
\* the k-th draw being the k-th element's mesh with its flags; the log ends
\* with the last draw; and between the draw before it (or the binds) and the
\* k-th draw lie exactly one transform call pushing the k-th element's model
\* matrix, one appearance call of the k-th element's kind and one material
\* call.
C12_BindThenPushThenDrawInSceneOrder ==
    (passState # "none") =>
        /\ BindIndexes = 1 .. Cardinality(BindIndexes)
        /\ \A i \in BindIndexes : renderLog[i].value[1] = i - 1
        /\ Cardinality(DrawIndexes) = Len(SceneElements)
        /\ renderLog[Len(renderLog)].kind = "draw"
        /\ \A d \in DrawIndexes :
              LET k == DrawRank(d)
                  e == SceneElements[k]
                  seg == Before(d) \ BindIndexes
              IN  /\ renderLog[d].name = e.mesh
                  /\ renderLog[d].value = e.flags
                  /\ CallCount(seg, "SetTransformations") = 1
                  /\ CallCount(seg, "SetShaderMaterial") = 1
                  /\ CallCount(seg, "SetShaderTexture")
                        = BoolInt(e.texture # "")
                  /\ CallCount(seg, "SetShaderColor")
                        = BoolInt(e.texture = "")
                  /\ \A i \in seg :
                        /\ renderLog[i].name = "model"
                              => renderLog[i].value = ColumnMajor(SceneModels[k])
                        /\ renderLog[i].name = "objectColor"
                              => renderLog[i].value = e.color
                        /\ renderLog[i].name = "bUseTexture"
                              => renderLog[i].value
                                   = << BoolInt(e.texture # "") >>

\* C12 witness: the log of a pass over two registered textures: two binds,
\* then the first element's transform call, and the sphere drawn last.
C12_Witness ==
    /\ lastCall.op = "RenderScene"
    /\ Len(renderLog) > 3
    /\ renderLog[1].kind = "bind" /\ renderLog[1].value[1] = 0
    /\ renderLog[2].kind = "bind" /\ renderLog[2].value[1] = 1
    /\ renderLog[3] = Event("call", "SetTransformations", << >>)
    /\ renderLog[Len(renderLog)] = Event("draw", "DrawSphereMesh", << >>)

----------------------------------------------------------------------------
(* Every operation and its callers: setup calls in any order, render       *)
(* passes, and, once a pass has run, binder and lookup calls on their own  *)

\* successful registrations the operations are tried against
MaxFrameTextures == 1

\* texture names handed out before these callers stop registering
MaxFrameGen == 2

FrameTags == { TagPool[1], UnknownTag }

\* the last element of the scene: the binder calls made on their own repeat
\* its arguments
LastElement == SceneElements[Len(SceneElements)]

NextFrame ==
    \/ /\ m_loadedTextures < MaxFrameTextures
       /\ glGenCount < MaxFrameGen
       /\ CreateGLTexture(TagPool[m_loadedTextures + 1], TRUE, 3)
    \/ /\ Len(m_objectMaterials) < MaxDefines * Len(SceneMaterials)
       /\ DefineObjectMaterials
    \/ DestroyGLTextures
    \/ RenderScene
    \/ BindGLTextures
    \/ \E tag \in FrameTags : CallFindTextureSlot(tag)
    \/ \E tag \in FrameTags : CallFindTextureID(tag)
    \/ \E tag \in { LastElement.material, UnknownTag } :
          CallFindMaterial(tag, SceneMaterials[1])
    \/ /\ passState # "none"
       /\ \/ SetShaderColor(LastElement.color)
          \/ SetShaderTexture(TagPool[1])
          \/ SetShaderMaterial(LastElement.material)
          \/ SetTextureUVScale(FixedOne, FixedOne)
          \/ SetTransformations(LastElement.scale, LastElement.rot[1],
                                LastElement.rot[2], LastElement.rot[3],
                                LastElement.pos)

SpecFrame == Init /\ [][NextFrame]_vars

\* the operations that only read the two registries
ReadOnlyOps ==
    { "RenderScene", "BindGLTextures", "FindTextureSlot", "FindTextureID",
      "FindMaterial", "SetShaderColor", "SetShaderTexture",
      "SetShaderMaterial", "SetTextureUVScale", "SetTransformations" }

\* the operations that write them
SetupOps ==
    { "CreateGLTexture", "DefineObjectMaterials", "DestroyGLTextures",
      "~SceneManager" }

\* C13: RenderScene, BindGLTextures, the three lookups and the five binders
\* leave the texture entries, the occupied-slot count and the material list
\* as they were; a step that changes any of them is a CreateGLTexture,
\* DefineObjectMaterials or DestroyGLTextures call.
C13_OnlySetupWritesRegistries ==
    [][ /\ lastCall'.op \in ReadOnlyOps
           => ( /\ m_textureIDs' = m_textureIDs
                /\ m_loadedTextures' = m_loadedTextures
                /\ m_objectMaterials' = m_objectMaterials )
        /\ ( \/ m_textureIDs' # m_textureIDs
             \/ m_loadedTextures' # m_loadedTextures
             \/ m_objectMaterials' # m_objectMaterials )
           => lastCall'.op \in SetupOps ]_vars

\* C13 witness: with a texture registered and the materials defined, a pass
\* has run, then SetTextureUVScale and SetShaderTexture, and a lookup found
\* the texture where its registration put it.
C13_Witness ==
    /\ lastCall.op = "FindTextureSlot"
    /\ lastCall.ret = 0
    /\ passState \in {"once", "replayed"}
    /\ m_loadedTextures = 1
    /\ Len(m_objectMaterials) = Len(SceneMaterials)
    /\ uniforms["UVscale"] = <<FixedOne, FixedOne>>
    /\ uniforms["bUseTexture"] = <<1>>

----------------------------------------------------------------------------
(* FindMaterial and its callers: the materials defined up to twice, then   *)
(* lookups with any tag and any caller's material                          *)

\* DefineObjectMaterials calls FindMaterial is tried against
MaxMaterialDefines == 2

MaterialTags ==
    { SceneMaterials[i].tag : i \in 1 .. Len(SceneMaterials) } \cup { UnknownTag }

\* what the caller's material holds when it is passed in
CallerMaterials == UninitMaterials \cup { SceneMaterials[2] }

NextMaterial ==
    \/ /\ Len(m_objectMaterials) < MaxMaterialDefines * Len(SceneMaterials)
       /\ DefineObjectMaterials
    \/ \E tag \in MaterialTags, material \in CallerMaterials :
          CallFindMaterial(tag, material)
    \/ \E tag \in MaterialTags : SetShaderMaterial(tag)

SpecMaterial == Init /\ [][NextMaterial]_vars

\* the least index of m_objectMaterials whose entry carries `tag`
FirstMaterialIndex(tag) ==
    LET at == { i \in 1 .. Len(m_objectMaterials) :
                  m_objectMaterials[i].tag = tag }
    IN  CHOOSE i \in at : \A j \in at : i <= j

\* C14: FindMaterial returns false on an empty list; on a non-empty list it
\* returns true whether or not the tag matches; on a match the caller's
\* material ends with the diffuse color, specular color and shininess of
\* the entry of least index that carries the tag (an entry defined later
\* under the same tag is not the one read); with no match the caller's
\* material ends as it was passed in.
C14_FindMaterialFirstMatchOrUnchanged ==
    (lastCall.op = "FindMaterial") =>
        LET before == SubSeq(lastCall.args, 1, 7)
            after == SubSeq(lastCall.args, 8, 14)
            tag == lastCall.tag
        IN  /\ Len(m_objectMaterials) = 0
                 => lastCall.ret = 0 /\ after = before
            /\ Len(m_objectMaterials) > 0 => lastCall.ret = 1
            /\ MaterialDefined(tag)
                 => /\ ScanMaterials(tag, 1) = FirstMaterialIndex(tag)
                    /\ after = MaterialValues(
                                   m_objectMaterials[FirstMaterialIndex(tag)])
            /\ ~MaterialDefined(tag) => after = before

\* C14 witness: with every tag defined twice, a lookup of the last tag
\* defined answered true and replaced the caller's values with those of the
\* fourth entry, not the eighth.
C14_Witness ==
    /\ lastCall.op = "FindMaterial"
    /\ lastCall.tag = "glass"
    /\ lastCall.ret = 1
    /\ Len(m_objectMaterials) = 2 * Len(SceneMaterials)
    /\ m_objectMaterials[8].tag = "glass"
    /\ ScanMaterials("glass", 1) = 4
    /\ SubSeq(lastCall.args, 8, 14) = MaterialValues(SceneMaterials[4])
    /\ SubSeq(lastCall.args, 1, 7) # SubSeq(lastCall.args, 8, 14)

----------------------------------------------------------------------------
(* Ownership of the texture names, checked under SpecRegistry *)

\* the texture names glGenTextures has handed out and glDeleteTextures has
\* not released
LiveHandles == (1 .. glGenCount) \ glDeleted

\* C15: after any sequence of CreateGLTexture calls, failed ones included,
\* and DestroyGLTextures calls, the texture names created and not released
\* are exactly the IDs of the occupied slots, each held by one slot: a
\* failed registration leaves no texture that no slot holds, a teardown
\* leaves no texture at all.
C15_LiveHandlesAreRegistered ==
    (objState \in {"alive", "destroyed"}) =>
        /\ LiveHandles = HeldHandles
        /\ \A i, j \in 0 .. (m_loadedTextures - 1) :
              m_textureIDs[i].ID = m_textureIDs[j].ID => i = j

----------------------------------------------------------------------------
(* The setup phase *)

\* LoadSceneTextures with a bug: the last CreateGLTexture call is missing
SceneTextureTags_NoWall == SubSeq(TagPool, 1, 13)

\* the tags LoadSceneTextures passes to CreateGLTexture, in order
SceneTextureTags == SubSeq(TagPool, 1, 14)

\* the texture collection and the GL state CreateGLTexture works on, as one
\* value, for the calls a method makes one after the other
RegistryState ==
    [ids |-> m_textureIDs, count |-> m_loadedTextures, gen |-> glGenCount,
     units |-> glUnits, active |-> glActiveUnit, reg |-> registered,
     obj |-> objState]

\* one CreateGLTexture call made from within a method: `d` is stbi_load's
\* answer, `oob` what a store past the end of m_textureIDs does
CreateGLTextureStep(r, tag, d, oob) ==
    IF r.obj # "alive" \/ ~d.ok THEN r
    ELSE LET textureID == r.gen + 1 IN
         IF ~ChannelsSupported(d.channels)
         THEN [r EXCEPT !.gen = textureID, !.units[r.active] = textureID]
         ELSE IF r.count \in Slots
         THEN [r EXCEPT !.gen = textureID, !.units[r.active] = 0,
                        !.ids[r.count] = [tag |-> tag, ID |-> textureID],
                        !.count = r.count + 1,
                        !.reg = Append(r.reg, tag)]
         ELSE [r EXCEPT !.gen = textureID, !.units[r.active] = 0,
                        !.obj = oob,
                        !.count = IF oob = "oob_write" THEN r.count + 1
                                  ELSE r.count,
                        !.reg = IF oob = "oob_write" THEN Append(r.reg, tag)
                                ELSE r.reg]

\* the BindGLTextures call that ends LoadSceneTextures
BindGLTexturesStep(r) ==
    IF r.obj # "alive" THEN r
    ELSE [r EXCEPT
            !.units = [u \in DOMAIN r.units |->
                         IF u < r.count THEN r.ids[u].ID ELSE r.units[u]],
            !.active = IF r.count > 0 THEN r.count - 1 ELSE r.active]

\* the CreateGLTexture calls of LoadSceneTextures from the k-th on
RECURSIVE LoadFrom(_, _, _, _)
LoadFrom(r, k, decodes, oob) ==
    IF k > Len(SceneTextureTags) THEN r
    ELSE LoadFrom(CreateGLTextureStep(r, SceneTextureTags[k], decodes[k], oob),
                  k + 1, decodes, oob)

\* LoadSceneTextures(): the registrations (a failed one is only reported),
\* then BindGLTextures
LoadSceneTextures(r, decodes, oob) ==
    BindGLTexturesStep(LoadFrom(r, 1, decodes, oob))

\* SetupSceneLights(): the setter calls it makes, in order
SetupSceneLightsEvents ==
    << Event("call", "SetupSceneLights", << >>),
       SetUniform("bUseLighting", <<1>>),
       SetUniform("directionalLight.direction", <<-50, -300, -100>>),
       SetUniform("directionalLight.ambient", <<50, 50, 50>>),
       SetUniform("directionalLight.diffuse", <<600, 600, 600>>),
       SetUniform("directionalLight.specular", <<0, 0, 0>>),
       SetUniform("directionalLight.bActive", <<1>>),
       SetUniform("pointLights[0].position", <<-4000, 8000, 0>>),
       SetUniform("pointLights[0].ambient", <<50, 50, 50>>),
       SetUniform("pointLights[0].diffuse", <<300, 300, 300>>),
       SetUniform("pointLights[0].specular", <<100, 100, 100>>),
       SetUniform("pointLights[0].bActive", <<1>>),
       SetUniform("pointLights[1].position", <<4000, 8000, 0>>),
       SetUniform("pointLights[1].ambient", <<50, 50, 50>>),
       SetUniform("pointLights[1].diffuse", <<300, 300, 300>>),
       SetUniform("pointLights[1].specular", <<100, 100, 100>>),
       SetUniform("pointLights[1].bActive", <<1>>),
       SetUniform("pointLights[2].position", <<3800, 5500, 4000>>),
       SetUniform("pointLights[2].ambient", <<50, 50, 50>>),
       SetUniform("pointLights[2].diffuse", <<200, 200, 200>>),
       SetUniform("pointLights[2].specular", <<800, 800, 800>>),
       SetUniform("pointLights[2].bActive", <<1>>),
       SetUniform("pointLights[3].position", <<3800, 3500, 4000>>),
       SetUniform("pointLights[3].ambient", <<50, 50, 50>>),
       SetUniform("pointLights[3].diffuse", <<200, 200, 200>>),
       SetUniform("pointLights[3].specular", <<800, 800, 800>>),
       SetUniform("pointLights[3].bActive", <<1>>),
       SetUniform("pointLights[4].position", <<-3200, 6000, -4000>>),
       SetUniform("pointLights[4].ambient", <<50, 50, 50>>),
       SetUniform("pointLights[4].diffuse", <<900, 900, 900>>),
       SetUniform("pointLights[4].specular", <<100, 100, 100>>),
       SetUniform("pointLights[4].bActive", <<1>>),
       SetUniform("spotLight.ambient", <<800, 800, 800>>),
       SetUniform("spotLight.diffuse", <<1000, 1000, 1000>>),
       SetUniform("spotLight.specular", <<700, 700, 700>>),
       SetUniform("spotLight.constant", <<1000>>),
       SetUniform("spotLight.linear", <<90>>),
       SetUniform("spotLight.quadratic", <<32>>),
       SetUniform("spotLight.cutOff", <<737>>),
       SetUniform("spotLight.outerCutOff", <<669>>),
       SetUniform("spotLight.bActive", <<1>>) >>

\* PrepareScene(): LoadSceneTextures, DefineObjectMaterials, SetupSceneLights,
\* then the mesh loads, which touch nothing of SceneManager.  The lighting
\* uniforms are read by no method of SceneManager: their setter calls are
\* counted, their values are not kept.
PrepareScene(decodes, oob) ==
    /\ Alive
    /\ LET r == LoadSceneTextures(RegistryState, decodes, oob) IN
       /\ m_textureIDs' = r.ids
       /\ m_loadedTextures' = r.count
       /\ glGenCount' = r.gen
       /\ glUnits' = r.units
       /\ glActiveUnit' = r.active
       /\ registered' = r.reg
       /\ objState' = r.obj
       /\ IF r.obj = "alive"
          THEN /\ m_objectMaterials' = m_objectMaterials \o SceneMaterials
               /\ uniforms' = ApplyEvents(uniforms, SetupSceneLightsEvents)
               /\ lastCall' = Call("PrepareScene", "", << >>, 0,
                                   UniformWrites(SetupSceneLightsEvents))
          ELSE /\ UNCHANGED << m_objectMaterials, uniforms >>
               /\ lastCall' = Call("PrepareScene", "", << >>, 0, 0)
    /\ passState' = AfterSetup
    /\ UNCHANGED << glDeleted, renderLog, m_pShaderManager >>

----------------------------------------------------------------------------
(* The scene's callers: PrepareScene and RenderScene in any order *)

\* PrepareScene calls the scene is tried against
MaxPrepares == 2

\* the files of LoadSceneTextures that may fail to load, by position
FailurePositions == {1, 8, 14}

\* stbi_load's answers for the 14 files: all decode with 3 or all with 4
\* channels, or one of them does not decode or decodes with 1 channel
LoadOutcomes ==
    { [k \in 1 .. Len(SceneTextureTags) |-> [ok |-> TRUE, channels |-> c]] :
        c \in {3, 4} }
    \cup
    { [k \in 1 .. Len(SceneTextureTags) |->
          IF k = bad THEN d ELSE [ok |-> TRUE, channels |-> 3]] :
        bad \in FailurePositions,
        d \in { r \in DecodeResults : r.channels \in {0, 1} } }

NextScene ==
    \/ /\ Len(m_objectMaterials) < MaxPrepares * Len(SceneMaterials)
       /\ \E decodes \in LoadOutcomes, oob \in {"oob_write", "crash"} :
            PrepareScene(decodes, oob)
    \/ RenderScene

SpecScene == Init /\ [][NextScene]_vars

\* PrepareScene has run once and every one of its loads succeeded
PreparedOnce ==
    /\ Alive
    /\ registered = SceneTextureTags
    /\ Len(m_objectMaterials) = Len(SceneMaterials)

\* C16: after one PrepareScene whose loads all succeeded the count is at
\* most 16, the occupied slots carry pairwise different tags and so do the
\* materials; every texture tag RenderScene passes to SetShaderTexture is
\* found in a slot 0..count-1 and every material tag it passes to
\* SetShaderMaterial is defined; in the log of a pass run since, no
\* objectTexture push carries -1 or any value outside 0..count-1, and the
\* material pushes before each draw carry that element's material.
C16_PreparedSceneResolvesEveryTag ==
    PreparedOnce =>
        /\ m_loadedTextures <= MaxTextures
        /\ \A i, j \in 0 .. (m_loadedTextures - 1) :
              m_textureIDs[i].tag = m_textureIDs[j].tag => i = j
        /\ \A i, j \in 1 .. Len(m_objectMaterials) :
              m_objectMaterials[i].tag = m_objectMaterials[j].tag => i = j
        /\ \A i \in 1 .. Len(SceneElements) :
              /\ SceneElements[i].texture # ""
                   => FindTextureSlot(SceneElements[i].texture)
                        \in 0 .. (m_loadedTextures - 1)
              /\ MaterialDefined(SceneElements[i].material)
        /\ lastCall.op = "RenderScene"
             => /\ \A i \in 1 .. Len(renderLog) :
                      renderLog[i].name = "objectTexture"
                      => renderLog[i].value[1] \in 0 .. (m_loadedTextures - 1)
                /\ \A d \in DrawIndexes :
                      LET e == SceneElements[DrawRank(d)] IN
                      \A i \in Before(d) :
                          /\ renderLog[i].name = "material.diffuseColor"
                               => renderLog[i].value
                                    = FirstMaterial(e.material).diffuseColor
                          /\ renderLog[i].name = "material.shininess"
                               => renderLog[i].value
                                    = << FirstMaterial(e.material).shininess >>
                          /\ renderLog[i].name = "objectTexture"
                               => m_textureIDs[renderLog[i].value[1]].tag
                                    = e.texture

\* C16 witness: a second pass after one PrepareScene that loaded all 14
\* textures; the wall, registered last, was pushed as slot 13.
C16_Witness ==
    /\ PreparedOnce
    /\ lastCall.op = "RenderScene"
    /\ passState = "replayed"
    /\ m_loadedTextures = Len(SceneTextureTags)
    /\ FindTextureSlot("wall") = 13
    /\ \E i \in 1 .. Len(renderLog) :
          renderLog[i] = SetUniform("objectTexture", <<13>>)
    /\ uniforms["material.shininess"] = << SceneMaterials[4].shininess >>

====
